---- MODULE Spec2Model ----
(***************************************************************************)
(* The pixel-economy engine of src/main.py: placement, undo, reports, the  *)
(* weekly cycle and the monthly vote, over the sqlite database and the     *)
(* in-memory rate-limit map.                                               *)
(*                                                                         *)
(* Scheduling.  Every endpoint is an `async def` without a single await,   *)
(* served by uvicorn.run(app) on one event loop (main.py:1249-1251): a     *)
(* handler runs to completion before the next request is looked at, so     *)
(* concurrent requests are executed in some serial order.  Each handler is *)
(* therefore one action, and Next explores every order of the requests.    *)
(*                                                                         *)
(* Time.  `now` is the wall clock in whole seconds; the host clock is UTC, *)
(* so datetime.now() and sqlite's datetime('now') read the same instant.   *)
(* Timestamps are kept in the textual form the code stores and compares.   *)
(***************************************************************************)
EXTENDS Integers, Sequences, FiniteSets, TLC

VARIABLES
    db,                    \* the sqlite database pixelcanvas.db
    user_last_placement,   \* the in-memory rate-limit map
    now,                   \* the wall clock, seconds
    ticks,                 \* how often the clock has advanced
    hist                   \* observation: the last handler that ran and what it saw

vars == <<db, user_last_placement, now, ticks, hist>>

(***************************** bounds **************************************)
MaxUsers == 2
MaxPlacements == 2
MaxReportCalls == 2
MaxFrozenPlacements == 1
MaxTicks == 2
StartTime == 86400

Cells == {<<0, 0>>, <<1023, 1023>>}
OutOfRange == <<1024, 0>>
Colors == {"#000000", "#FFFFFF"}
InitialCredits == {1000, 3250}

(************************* program constants *******************************)
\* UNDO_BASE_PERCENT, UNDO_INCREMENT_PERCENT and AD_OVERWRITE_DISCOUNT are the
\* code's fractions 0.25, 0.10 and 0.10 in hundredths; WEEK_SECONDS is
\* timedelta(days=7) and FREE_WINDOW_SECONDS the literal 21600.
BOARD_SIZE == 1024
BASE_COST_CREDITS == 1000
COST_INCREMENT_CREDITS == 1000
INITIAL_CAP_CREDITS == 200000
LOWER_CAP_CREDITS == 150000
CAP_TRIGGER_COUNT == 100
INACTIVITY_THRESHOLD_SECONDS == 1800
FREE_ELIGIBILITY_MAX_PAID == 500
RATE_LIMIT_SECONDS == 1
UNDO_WINDOW_SECONDS == 300
UNDO_BASE_PERCENT == 25
UNDO_INCREMENT_PERCENT == 10
AD_OVERWRITE_DISCOUNT == 10
REPORT_FREEZE_THRESHOLD == 2500
WEEK_SECONDS == 604800
FREE_WINDOW_SECONDS == 21600
SecondsPerDay == 86400

\* How far one step of the clock can move it: the code's thresholds and the
\* distances between them.
Jumps == {RATE_LIMIT_SECONDS, UNDO_WINDOW_SECONDS, INACTIVITY_THRESHOLD_SECONDS,
          WEEK_SECONDS - FREE_WINDOW_SECONDS, WEEK_SECONDS}

\* A report request repeated back to back within one second, this many times.
ReportBursts == {1, REPORT_FREEZE_THRESHOLD - 1, REPORT_FREEZE_THRESHOLD}

\* fetchone() found no row / a column is NULL
NoRow == "none"
NoOwner == 0
NoPixel == [color |-> NoRow, cost_level |-> 0, owner_id |-> NoOwner, is_ad |-> FALSE]
\* users.last_reward_month IS NULL
NoReward == [year |-> 0, month |-> 0]
NoPre == [credits |-> 0, paid |-> 0, pixel |-> NoPixel]

(****************************** timestamps *********************************)
\* A timestamp string "YYYY-MM-DD?HH:MM:SS" as <<date, separator, time of day>>:
\* strings of this shape compare as these triples do, lexicographically.
SPACE == 32
TEE == 84

\* sqlite's datetime('now'): "YYYY-MM-DD HH:MM:SS"
SqlDatetime(t) == <<t \div SecondsPerDay, SPACE, t % SecondsPerDay>>

\* datetime.isoformat(): "YYYY-MM-DDTHH:MM:SS"
IsoFormat(t) == <<t \div SecondsPerDay, TEE, t % SecondsPerDay>>

\* datetime.fromisoformat(): any separator is accepted
FromIsoFormat(s) == s[1] * SecondsPerDay + s[3]

\* a < b for timestamp strings (sqlite's text comparison)
TextLess(a, b) ==
    \/ a[1] < b[1]
    \/ a[1] = b[1] /\ a[2] < b[2]
    \/ a[1] = b[1] /\ a[2] = b[2] /\ a[3] < b[3]

TextGE(a, b) == ~TextLess(a, b)

(****************************** helpers ************************************)
\* Fault model: the cost is not clamped
Min_Unclamped(a, b) == a

\* min(cost, current_cap)
Min(a, b) == IF a < b THEN a ELSE b

RECURSIVE SumRows(_)
SumRows(s) == IF s = <<>> THEN 0 ELSE Head(s).rows + SumRows(Tail(s))

get_week_start(d) == FromIsoFormat(d.week_start)

get_last_placement_time(d) == FromIsoFormat(d.last_placement)

get_current_cap(d) == d.current_cap

is_board_frozen(d) == d.board_frozen = "1"

\* SELECT COUNT(*) FROM reports WHERE reported_at >= week_start.isoformat()
count_week_reports(d) ==
    LET since == IsoFormat(get_week_start(d))
        InWeek(r) == TextGE(r.reported_at, since)
    IN  SumRows(SelectSeq(d.reports, InWeek))

create_archive_snapshot(d, week_start, week_end) ==
    LET lo == IsoFormat(week_start)
        hi == IsoFormat(week_end)
        week == {i \in DOMAIN d.placements :
                    /\ TextGE(d.placements[i].placed_at, lo)
                    /\ TextLess(d.placements[i].placed_at, hi)}
        snapshot == [c \in DOMAIN d.pixels |->
                        [color |-> d.pixels[c].color,
                         owner_id |-> d.pixels[c].owner_id,
                         is_ad |-> d.pixels[c].is_ad]]
    IN  [d EXCEPT !.archives = Append(@,
            [week_start |-> lo, week_end |-> hi, snapshot_data |-> snapshot,
             total_placements |-> Cardinality(week),
             unique_contributors |->
                 Cardinality({d.placements[i].user_id : i \in week})])]

WeekPassed(d, t) == t - get_week_start(d) >= WEEK_SECONDS

\* Fault model: the cost levels survive the reset
ResetCostLevels_Keep(pixels) == pixels

\* Fault model: the reset takes the cells from their owners as well
ResetCostLevels_Disown(pixels) ==
    [c \in DOMAIN pixels |-> [pixels[c] EXCEPT !.cost_level = 0, !.owner_id = 0]]

\* UPDATE pixels SET cost_level = 0
ResetCostLevels(pixels) ==
    [c \in DOMAIN pixels |-> [pixels[c] EXCEPT !.cost_level = 0]]

\* UPDATE users SET undo_escalation_count = 0
RECURSIVE ResetUndoEscalation(_)
ResetUndoEscalation(users) ==
    IF users = <<>> THEN <<>>
    ELSE <<[Head(users) EXCEPT !.undo_escalation_count = 0]>>
         \o ResetUndoEscalation(Tail(users))

\* Fault model: the cycle start is not moved
new_week_start_Stale(d, t) == d.week_start

\* UPDATE global_state SET value = datetime('now') WHERE key = 'week_start'
new_week_start(d, t) == SqlDatetime(t)

check_and_reset_week(d, t) ==
    IF WeekPassed(d, t)
    THEN LET a == create_archive_snapshot(d, get_week_start(d), t)
         IN  [a EXCEPT !.pixels = ResetCostLevels(@),
                       !.users = ResetUndoEscalation(@),
                       !.week_start = new_week_start(d, t),
                       !.current_cap = INITIAL_CAP_CREDITS,
                       !.board_frozen = "0"]
    ELSE d

\* Fault model: the ceiling of lifetime paid placements is not looked at
is_free_placement_eligible_NoCeiling(d, user_id, t) ==
    LET inactive_seconds == t - get_last_placement_time(d)
        time_remaining == (get_week_start(d) + WEEK_SECONDS) - t
    IN  IF inactive_seconds >= INACTIVITY_THRESHOLD_SECONDS
        THEN <<TRUE, "inactivity">>
        ELSE IF time_remaining < FREE_WINDOW_SECONDS
        THEN <<TRUE, "end_of_week">>
        ELSE <<FALSE, NoRow>>

\* <<is_free, reason>>
is_free_placement_eligible(d, user_id, t) ==
    LET inactive_seconds == t - get_last_placement_time(d)
        time_remaining == (get_week_start(d) + WEEK_SECONDS) - t
        qualifies == /\ user_id \in DOMAIN d.users
                     /\ d.users[user_id].lifetime_paid_placements
                            <= FREE_ELIGIBILITY_MAX_PAID
    IN  IF inactive_seconds >= INACTIVITY_THRESHOLD_SECONDS /\ qualifies
        THEN <<TRUE, "inactivity">>
        ELSE IF time_remaining < FREE_WINDOW_SECONDS /\ qualifies
        THEN <<TRUE, "end_of_week">>
        ELSE <<FALSE, NoRow>>

\* int(cost * (1 - AD_OVERWRITE_DISCOUNT)): exact for every multiple of 1000
AdDiscount(cost) == (cost * (100 - AD_OVERWRITE_DISCOUNT)) \div 100

calculate_pixel_cost(d, cell) ==
    LET cost_level == IF cell \in DOMAIN d.pixels THEN d.pixels[cell].cost_level ELSE 0
        is_ad == IF cell \in DOMAIN d.pixels THEN d.pixels[cell].is_ad ELSE FALSE
        cost == BASE_COST_CREDITS + ((cost_level * COST_INCREMENT_CREDITS) \div 1000)
        discounted == IF is_ad THEN AdDiscount(cost) ELSE cost
    IN  Min(discounted, get_current_cap(d))

\* Fault model: the cap is lowered without counting the cells
update_dynamic_cap_Eager(d) ==
    IF get_current_cap(d) = INITIAL_CAP_CREDITS
    THEN [d EXCEPT !.current_cap = LOWER_CAP_CREDITS]
    ELSE d

update_dynamic_cap(d) ==
    IF get_current_cap(d) = INITIAL_CAP_CREDITS
    THEN LET level == (get_current_cap(d) \div COST_INCREMENT_CREDITS) * 1000
             count == Cardinality({c \in DOMAIN d.pixels : d.pixels[c].cost_level >= level})
         IN  IF count >= CAP_TRIGGER_COUNT
             THEN [d EXCEPT !.current_cap = LOWER_CAP_CREDITS]
             ELSE d
    ELSE d

(******************************* state *************************************)
\* hist records the last request served when it was a committed placement (and
\* NoHist after any other request): the placement's id, what it cost, the user's
\* and the cell's state just before it, and in `prior` the id and the cell's
\* earlier state of the placement committed by the request served right before
\* it (id 0 if that request committed none).
NoPrior == [id |-> 0, pixel |-> NoPixel]
NoHist == [op |-> "other", user |-> 0, id |-> 0, cell |-> <<>>,
           cost |-> 0, pre |-> NoPre, prior |-> NoPrior]

\* init_db() on an empty database file
Init ==
    /\ db = [users |-> <<>>,
             pixels |-> [c \in {} |-> NoRow],
             placements |-> <<>>,
             reports |-> <<>>,
             archives |-> <<>>,
             votes |-> {},
             purchases |-> <<>>,
             week_start |-> SqlDatetime(StartTime),
             last_placement |-> SqlDatetime(StartTime),
             current_cap |-> INITIAL_CAP_CREDITS,
             board_frozen |-> "0"]
    /\ user_last_placement = [u \in 1..MaxUsers |-> 0]
    /\ now = StartTime
    /\ ticks = 0
    /\ hist = NoHist

Tick(d) ==
    /\ now' = now + d
    /\ ticks' = ticks + 1
    /\ UNCHANGED <<db, user_last_placement, hist>>

\* POST /user/create (the username, unique by construction, is not modelled)
create_user(d, initial_credits) ==
    [d EXCEPT !.users = Append(@,
        [credits |-> initial_credits,
         lifetime_paid_placements |-> 0,
         undo_escalation_count |-> 0,
         ad_violation_count |-> 0,
         last_reward_month |-> NoReward])]

CreateUser(initial_credits) ==
    /\ db' = create_user(db, initial_credits)
    /\ hist' = NoHist
    /\ UNCHANGED <<user_last_placement, now, ticks>>

\* GET /board
GetBoard ==
    /\ db' = check_and_reset_week(db, now)
    /\ hist' = NoHist
    /\ UNCHANGED <<user_last_placement, now, ticks>>

(****************************** placement **********************************)
PixelRow(d, cell) == IF cell \in DOMAIN d.pixels THEN d.pixels[cell] ELSE NoPixel

\* Fault model: the previous state is not read from the cell
previous_state_Blank(d, cell) == <<NoRow, NoOwner>>

\* lines 571-578: <<previous_color, previous_owner>>, the cell as it is now
previous_state(d, cell) ==
    IF cell \in DOMAIN d.pixels
    THEN <<d.pixels[cell].color, d.pixels[cell].owner_id>>
    ELSE <<NoRow, NoOwner>>

\* Fault model: every overwrite counts as a violation
AdViolation_Always(previous_is_ad, is_ad) == TRUE

\* line 584: a placement not declared an ad over a cell flagged as one
AdViolation(previous_is_ad, is_ad) == previous_is_ad /\ ~is_ad

\* lines 571-634: the writes of a placement that passed every check
commit_placement(d, user_id, cell, color, is_ad, is_free, cost, t) ==
    LET exists == cell \in DOMAIN d.pixels
        existing_pixel == PixelRow(d, cell)
        previous_color == previous_state(d, cell)[1]
        previous_owner == previous_state(d, cell)[2]
        previous_is_ad == IF exists THEN existing_pixel.is_ad ELSE FALSE
        new_cost_level == (IF exists THEN existing_pixel.cost_level ELSE 0)
                              + COST_INCREMENT_CREDITS
        violated == [d.users EXCEPT ![user_id].ad_violation_count =
                        IF AdViolation(previous_is_ad, is_ad) THEN @ + 1 ELSE @]
        charged == IF is_free THEN violated
                   ELSE [violated EXCEPT ![user_id].credits = @ - cost,
                                         ![user_id].lifetime_paid_placements = @ + 1]
        row == [color |-> color, cost_level |-> new_cost_level,
                owner_id |-> user_id, is_ad |-> is_ad]
        pixels == [c \in DOMAIN d.pixels \cup {cell} |->
                      IF c = cell THEN row ELSE d.pixels[c]]
        record == [user_id |-> user_id, cell |-> cell, color |-> color, cost |-> cost,
                   was_free |-> is_free, is_ad |-> is_ad, can_undo |-> TRUE,
                   previous_color |-> previous_color,
                   previous_owner_id |-> previous_owner,
                   placed_at |-> SqlDatetime(t)]
    IN  update_dynamic_cap(
            [d EXCEPT !.users = charged,
                      !.pixels = pixels,
                      !.placements = Append(@, record),
                      !.last_placement = SqlDatetime(t)])

\* Fault model: the rate limit is not looked at
RateLimited_Never(ulp, user_id, t) == FALSE

\* lines 541-548: now - last_time < RATE_LIMIT_SECONDS
RateLimited(ulp, user_id, t) == t - ulp[user_id] < RATE_LIMIT_SECONDS

\* Fault model: the balance check dropped
InsufficientCredits_Never(is_free, user_credits, cost) == FALSE

InsufficientCredits(is_free, user_credits, cost) == ~is_free /\ user_credits < cost

\* Fault model: placements are not gated by the freeze flag
PlacementBlocked_Never(d) == FALSE

\* lines 521-523: the freeze gate of a placement
PlacementBlocked(d) == is_board_frozen(d)

\* POST /place: the outcome of the request and the state it leaves
place_pixel(d, ulp, user_id, cell, color, is_ad, t) ==
    IF PlacementBlocked(d)
    THEN [status |-> 403, db |-> d, ulp |-> ulp, cost |-> 0, was_free |-> FALSE]
    ELSE LET d1 == check_and_reset_week(d, t) IN
    IF user_id \notin DOMAIN d1.users
    THEN [status |-> 404, db |-> d1, ulp |-> ulp, cost |-> 0, was_free |-> FALSE]
    ELSE IF RateLimited(ulp, user_id, t)
    THEN [status |-> 429, db |-> d1, ulp |-> ulp, cost |-> 0, was_free |-> FALSE]
    ELSE LET ulp1 == [ulp EXCEPT ![user_id] = t]
             is_free == is_free_placement_eligible(d1, user_id, t)[1]
             cost == IF is_free THEN 0 ELSE calculate_pixel_cost(d1, cell)
             user_credits == d1.users[user_id].credits
         IN  IF InsufficientCredits(is_free, user_credits, cost)
             THEN [status |-> 402, db |-> d1, ulp |-> ulp1, cost |-> cost,
                   was_free |-> is_free]
             ELSE [status |-> 200,
                   db |-> commit_placement(d1, user_id, cell, color, is_ad, is_free, cost, t),
                   ulp |-> ulp1, cost |-> cost, was_free |-> is_free]

PlacePixel(user_id, cell, color, is_ad) ==
    LET r == place_pixel(db, user_last_placement, user_id, cell, color, is_ad, now)
        d1 == check_and_reset_week(db, now)
    IN  /\ db' = r.db
        /\ user_last_placement' = r.ulp
        /\ hist' = IF r.status = 200
                   THEN [op |-> "place", user |-> user_id, id |-> Len(r.db.placements),
                         cell |-> cell, cost |-> r.cost,
                         pre |-> [credits |-> d1.users[user_id].credits,
                                  paid |-> d1.users[user_id].lifetime_paid_placements,
                                  pixel |-> PixelRow(d1, cell)],
                         prior |-> IF hist.op = "place"
                                   THEN [id |-> hist.id, pixel |-> hist.pre.pixel]
                                   ELSE NoPrior]
                   ELSE NoHist
        /\ UNCHANGED <<now, ticks>>

(******************************** undo *************************************)
\* The (cost, undo count) pairs, within the costs and counts the model reaches,
\* where the double-precision product original_cost * (0.25 + undo_count * 0.10)
\* falls just below the exact value, so that int() gives one credit less
\* (0.25 + 0.10 is 0.34999999999999997 in double precision).
FloatShortfall ==
    {<<c, 1>> : c \in {2700, 5400, 10800, 11000, 179100, 180000, 180900, 181800, 182700}}

\* int(original_cost * (UNDO_BASE_PERCENT + (undo_count * UNDO_INCREMENT_PERCENT)))
undo_cost_of(original_cost, undo_count) ==
    ((original_cost * (UNDO_BASE_PERCENT + undo_count * UNDO_INCREMENT_PERCENT)) \div 100)
        - (IF <<original_cost, undo_count>> \in FloatShortfall THEN 1 ELSE 0)

\* Fault model: the undo window is not looked at
UndoWindowExpired_Never(placed_at, t) == FALSE

\* lines 724-727: (now - placed_at).total_seconds() > UNDO_WINDOW_SECONDS
UndoWindowExpired(placed_at, t) == t - FromIsoFormat(placed_at) > UNDO_WINDOW_SECONDS

\* Fault model: the colour is restored, the owner is not
restore_pixel_ColorOnly(pixels, placement) ==
    IF placement.previous_color # NoRow
    THEN [c \in DOMAIN pixels |->
             IF c = placement.cell
             THEN [pixels[c] EXCEPT !.color = placement.previous_color]
             ELSE pixels[c]]
    ELSE [c \in DOMAIN pixels \ {placement.cell} |-> pixels[c]]

\* lines 758-772: restore the previous pixel, or delete it if there was none
restore_pixel(pixels, placement) ==
    IF placement.previous_color # NoRow
    THEN [c \in DOMAIN pixels |->
             IF c = placement.cell
             THEN [pixels[c] EXCEPT !.color = placement.previous_color,
                                    !.owner_id = placement.previous_owner_id]
             ELSE pixels[c]]
    ELSE [c \in DOMAIN pixels \ {placement.cell} |-> pixels[c]]

\* lines 748-779: the writes of an undo that passed every check
commit_undo(d, placement_id, user_id, undo_cost) ==
    [d EXCEPT !.users[user_id].credits = @ - undo_cost,
              !.users[user_id].undo_escalation_count = @ + 1,
              !.pixels = restore_pixel(@, d.placements[placement_id]),
              !.placements[placement_id].can_undo = FALSE]

\* Fault model: the can_undo flag is not looked at
AlreadyUndone_Never(placement) == FALSE

\* lines 720-721: if not placement[4]
AlreadyUndone(placement) == ~placement.can_undo

\* POST /undo/{placement_id}
undo_placement(d, placement_id, user_id, t) ==
    IF is_board_frozen(d)
    THEN [status |-> 403, db |-> d, cost |-> 0]
    ELSE IF placement_id \notin DOMAIN d.placements
    THEN [status |-> 404, db |-> d, cost |-> 0]
    ELSE LET placement == d.placements[placement_id] IN
    IF placement.user_id # user_id
    THEN [status |-> 403, db |-> d, cost |-> 0]
    ELSE IF AlreadyUndone(placement)
    THEN [status |-> 400, db |-> d, cost |-> 0]
    ELSE IF UndoWindowExpired(placement.placed_at, t)
    THEN [status |-> 400, db |-> d, cost |-> 0]
    ELSE LET user_credits == d.users[user_id].credits
             undo_count == d.users[user_id].undo_escalation_count
             undo_cost == undo_cost_of(placement.cost, undo_count)
         IN  IF user_credits < undo_cost
             THEN [status |-> 402, db |-> d, cost |-> undo_cost]
             ELSE [status |-> 200, db |-> commit_undo(d, placement_id, user_id, undo_cost),
                   cost |-> undo_cost]

UndoPlacement(placement_id, user_id) ==
    LET r == undo_placement(db, placement_id, user_id, now)
    IN  /\ db' = r.db
        /\ hist' = NoHist
        /\ UNCHANGED <<user_last_placement, now, ticks>>

(******************************* reports ***********************************)
InRange(cell) == /\ 0 <= cell[1] /\ cell[1] < BOARD_SIZE
                 /\ 0 <= cell[2] /\ cell[2] < BOARD_SIZE

ThresholdReached(report_count) == report_count >= REPORT_FREEZE_THRESHOLD

\* Fault model: a report at or above the threshold flips the flag
frozen_after_report_Toggle(d, report_count) ==
    IF ThresholdReached(report_count)
    THEN (IF is_board_frozen(d) THEN "0" ELSE "1")
    ELSE d.board_frozen

\* lines 813-821: the flag is written, to '1', only if it is not yet set
frozen_after_report(d, report_count) ==
    IF ThresholdReached(report_count) /\ ~is_board_frozen(d)
    THEN "1"
    ELSE d.board_frozen

\* POST /report, `rows` times in a row within one second: the rows share their
\* reported_at, and the count only grows, so the burst freezes the board exactly
\* if its last report does.  rows = 1 is the single request.
report_pixel(d, user_id, cell, rows, t) ==
    IF ~InRange(cell)
    THEN [status |-> 400, db |-> d, board_frozen |-> FALSE]
    ELSE IF user_id \notin DOMAIN d.users
    THEN [status |-> 404, db |-> d, board_frozen |-> FALSE]
    ELSE LET d1 == [d EXCEPT !.reports = Append(@,
                       [reported_at |-> SqlDatetime(t), rows |-> rows])]
             report_count == count_week_reports(d1)
         IN  [status |-> 200,
              db |-> [d1 EXCEPT !.board_frozen = frozen_after_report(d1, report_count)],
              board_frozen |-> ThresholdReached(report_count) /\ ~is_board_frozen(d1)]

ReportPixel(user_id, cell, rows) ==
    LET r == report_pixel(db, user_id, cell, rows, now)
    IN  /\ db' = r.db
        /\ hist' = NoHist
        /\ UNCHANGED <<user_last_placement, now, ticks>>

(**************************** monthly voting ******************************)
\* The calendar: day 0 of the clock is 1970-01-01.
EpochYear == 1970

IsLeapYear(y) == (y % 4 = 0 /\ y % 100 # 0) \/ y % 400 = 0

DaysInMonth(y, m) ==
    IF m = 2 THEN (IF IsLeapYear(y) THEN 29 ELSE 28)
    ELSE IF m \in {4, 6, 9, 11} THEN 30 ELSE 31

RECURSIVE DateOfDay(_, _, _)
DateOfDay(y, m, day) ==
    IF day < DaysInMonth(y, m) THEN [year |-> y, month |-> m]
    ELSE IF m = 12 THEN DateOfDay(y + 1, 1, day - DaysInMonth(y, m))
    ELSE DateOfDay(y, m + 1, day - DaysInMonth(y, m))

\* datetime.fromisoformat(s).year and .month; strftime('%Y'), strftime('%m')
YearMonth(s) == DateOfDay(EpochYear, 1, s[1])

\* Fault model: the UNIQUE(user_id, month, year) constraint is missing
UniqueViolation_Never(votes, row) == FALSE

\* UNIQUE(user_id, month, year): the INSERT raises sqlite3.IntegrityError
UniqueViolation(votes, row) ==
    \E v \in votes : /\ v.user_id = row.user_id
                     /\ v.month = row.month
                     /\ v.year = row.year

\* POST /vote.  The rows of the votes table are kept as a set: the id and
\* voted_at columns are never read.
vote_for_archive(d, user_id, archive_id) ==
    IF user_id \notin DOMAIN d.users
    THEN [status |-> 404, db |-> d]
    ELSE IF archive_id \notin DOMAIN d.archives
    THEN [status |-> 404, db |-> d]
    ELSE LET week_end == YearMonth(d.archives[archive_id].week_end)
             row == [user_id |-> user_id, archive_id |-> archive_id,
                     month |-> week_end.month, year |-> week_end.year]
         IN  IF UniqueViolation(d.votes, row)
             THEN [status |-> 400, db |-> d]
             ELSE [status |-> 200, db |-> [d EXCEPT !.votes = @ \cup {row}]]

VoteForArchive(user_id, archive_id) ==
    /\ db' = vote_for_archive(db, user_id, archive_id).db
    /\ UNCHANGED <<user_last_placement, now, ticks, hist>>

MONTHLY_REWARD_CREDITS == 100000
REWARD_COOLDOWN_MONTHS == 6

\* COUNT(votes.id) of the archive's group
vote_count(d, a) == Cardinality({v \in d.votes : v.archive_id = a})

\* The rows the first query can return: an archive whose week_end lies in the
\* month and that no other such archive outvotes.  ORDER BY vote_count DESC
\* LIMIT 1 leaves the choice among equally voted archives open.
winner_rows(d, year, month) ==
    LET in_month == {a \in DOMAIN d.archives :
                        YearMonth(d.archives[a].week_end)
                            = [year |-> year, month |-> month]}
    IN  {a \in in_month : \A b \in in_month : vote_count(d, a) >= vote_count(d, b)}

\* COUNT(*) of the user's group: paid placements with
\* placed_at >= week_start AND placed_at < week_end, compared as text
paid_in_week(d, a, u) ==
    Cardinality({i \in DOMAIN d.placements :
                    /\ d.placements[i].user_id = u
                    /\ ~d.placements[i].was_free
                    /\ TextGE(d.placements[i].placed_at, d.archives[a].week_start)
                    /\ TextLess(d.placements[i].placed_at, d.archives[a].week_end)})

\* The rows the second query can return (ties, again, left open)
top_contributors(d, a) ==
    {u \in DOMAIN d.users :
        /\ paid_in_week(d, a, u) > 0
        /\ \A v \in DOMAIN d.users : paid_in_week(d, a, u) >= paid_in_week(d, a, v)}

\* reward_key = f"{year}-{month:02d}", read back by map(int, split('-')): the
\* text gives back the two numbers it was made of (the year of an archive is
\* never negative), so the key is kept as the pair.
reward_key(year, month) == [year |-> year, month |-> month]

\* Fault model: the cooldown is not looked at
CooldownActive_Never(last_reward, year, month) == FALSE

\* lines 1182-1186: if last_reward: ... if months_diff < 6
CooldownActive(last_reward, year, month) ==
    /\ last_reward # NoReward
    /\ (year - last_reward.year) * 12 + (month - last_reward.month)
           < REWARD_COOLDOWN_MONTHS

NoWinner == 0

\* GET /monthly-winner/{year}/{month}, with the rows the two queries returned
\* (NoWinner for no row)
get_monthly_winner(d, year, month, archive_id, winner_user_id) ==
    IF archive_id = NoWinner \/ vote_count(d, archive_id) = 0
    THEN [winner |-> NoWinner, reward_given |-> FALSE, cooldown_active |-> FALSE, db |-> d]
    ELSE IF winner_user_id = NoWinner
    THEN [winner |-> NoWinner, reward_given |-> FALSE, cooldown_active |-> FALSE, db |-> d]
    ELSE IF CooldownActive(d.users[winner_user_id].last_reward_month, year, month)
    THEN [winner |-> winner_user_id, reward_given |-> FALSE, cooldown_active |-> TRUE,
          db |-> d]
    ELSE [winner |-> winner_user_id, reward_given |-> TRUE, cooldown_active |-> FALSE,
          db |-> [d EXCEPT !.users[winner_user_id].credits = @ + MONTHLY_REWARD_CREDITS,
                           !.users[winner_user_id].last_reward_month =
                               reward_key(year, month)]]

\* Every outcome the request can have on the database d
monthly_winner_outcomes(d, year, month) ==
    LET rows == winner_rows(d, year, month)
    IN  IF rows = {} THEN {get_monthly_winner(d, year, month, NoWinner, NoWinner)}
        ELSE UNION {LET top == top_contributors(d, a)
                    IN  {get_monthly_winner(d, year, month, a, u) :
                            u \in IF top = {} THEN {NoWinner} ELSE top} :
                    a \in rows}

\* GET /monthly-winner/{year}/{month}.  Under SpecVotes `hist` is the ledger of
\* the rewards granted so far, in the order they were granted.
NoRewards == [op |-> "rewards", granted |-> <<>>]

MonthlyWinner(year, month) ==
    \E r \in monthly_winner_outcomes(db, year, month) :
        /\ db' = r.db
        /\ hist' = IF r.reward_given
                   THEN [hist EXCEPT !.granted =
                            Append(@, [user_id |-> r.winner, year |-> year,
                                       month |-> month])]
                   ELSE hist
        /\ UNCHANGED <<user_last_placement, now, ticks>>

(****************************** purchases **********************************)
\* lines 23-27: the credits and the price in cents of the packages on sale
CREDIT_PACKAGES ==
    [small |-> [credits |-> 50000, price |-> 500],
     medium |-> [credits |-> 110000, price |-> 1000],
     large |-> [credits |-> 250000, price |-> 2000]]

\* POST /create-checkout-session, with the Stripe keys configured and Stripe
\* answering.  checkout_session.id, which Stripe makes unique, is the number of
\* the purchase.
create_checkout_session(d, user_id, package) ==
    IF package \notin DOMAIN CREDIT_PACKAGES
    THEN [status |-> 400, db |-> d]
    ELSE IF user_id \notin DOMAIN d.users
    THEN [status |-> 404, db |-> d]
    ELSE [status |-> 200,
          db |-> [d EXCEPT !.purchases = Append(@,
                    [user_id |-> user_id,
                     stripe_session_id |-> Len(@) + 1,
                     amount_cents |-> CREDIT_PACKAGES[package].price,
                     credits_purchased |-> CREDIT_PACKAGES[package].credits,
                     status |-> "pending"])]]

\* SELECT ... FROM purchases WHERE stripe_session_id = ? (the column is UNIQUE)
purchase_of(d, session_id) ==
    {i \in DOMAIN d.purchases : d.purchases[i].stripe_session_id = session_id}

\* POST /webhook/stripe with a signed event of the given type for the session
stripe_webhook(d, type, session_id) ==
    IF type # "checkout.session.completed" \/ purchase_of(d, session_id) = {}
    THEN d
    ELSE LET purchase_id == CHOOSE i \in purchase_of(d, session_id) : TRUE
             user_id == d.purchases[purchase_id].user_id
             credits == d.purchases[purchase_id].credits_purchased
         IN  [d EXCEPT !.users[user_id].credits = @ + credits,
                       !.purchases[purchase_id].status = "completed"]

\* With purchases `hist` is the ledger of the events Stripe has delivered, in
\* the order of their delivery.  Stripe delivers an event at least once.
NoEvents == [op |-> "events", delivered |-> <<>>]

CreateCheckoutSession(user_id, package) ==
    /\ db' = create_checkout_session(db, user_id, package).db
    /\ UNCHANGED <<user_last_placement, now, ticks, hist>>

StripeWebhook(type, session_id) ==
    /\ db' = stripe_webhook(db, type, session_id)
    /\ hist' = [hist EXCEPT !.delivered =
                    Append(@, [type |-> type, session_id |-> session_id])]
    /\ UNCHANGED <<user_last_placement, now, ticks>>

(************************* failing requests ********************************)
\* A request that fails part-way (an sqlite error, the process killed) has run a
\* prefix of its statements.  A handler is laid out as the sequence of its
\* writing statements: `db` is the connection's view after the statement and
\* `commit` tells whether a conn.commit() follows it.
Stage(d, commit) == [db |-> d, commit |-> commit]

\* Fault model: every statement is durable at once (no transaction is open)
Durable_Autocommit(d0, stages, k) == IF k = 0 THEN d0 ELSE stages[k].db

\* get_db(): what the database file holds when the request stops after its
\* k-th statement: the view at the last commit, everything later rolled back
Durable(d0, stages, k) ==
    LET committed == {i \in 1..k : stages[i].commit}
    IN  IF committed = {} THEN d0
        ELSE stages[CHOOSE i \in committed : \A j \in committed : j <= i].db

\* check_and_reset_week, statement by statement
reset_stages(d, t) ==
    IF WeekPassed(d, t)
    THEN LET s1 == create_archive_snapshot(d, get_week_start(d), t)
             s2 == [s1 EXCEPT !.pixels = ResetCostLevels(@)]
             s3 == [s2 EXCEPT !.users = ResetUndoEscalation(@)]
             s4 == [s3 EXCEPT !.week_start = new_week_start(d, t)]
             s5 == [s4 EXCEPT !.current_cap = INITIAL_CAP_CREDITS]
             s6 == [s5 EXCEPT !.board_frozen = "0"]
         IN  <<Stage(s1, TRUE), Stage(s2, FALSE), Stage(s3, FALSE),
               Stage(s4, FALSE), Stage(s5, FALSE), Stage(s6, TRUE)>>
    ELSE <<>>

\* lines 582-637 of place_pixel, statement by statement, for a request that
\* passed every check on the database d
placement_stages(d, user_id, cell, color, is_ad, is_free, cost, t) ==
    LET exists == cell \in DOMAIN d.pixels
        existing_pixel == PixelRow(d, cell)
        previous_is_ad == IF exists THEN existing_pixel.is_ad ELSE FALSE
        new_cost_level == (IF exists THEN existing_pixel.cost_level ELSE 0)
                              + COST_INCREMENT_CREDITS
        s1 == IF AdViolation(previous_is_ad, is_ad)
              THEN [d EXCEPT !.users[user_id].ad_violation_count = @ + 1]
              ELSE d
        s2 == IF is_free THEN s1
              ELSE [s1 EXCEPT !.users[user_id].credits = @ - cost,
                              !.users[user_id].lifetime_paid_placements = @ + 1]
        s3 == [s2 EXCEPT !.pixels =
                  [c \in DOMAIN d.pixels \cup {cell} |->
                      IF c = cell
                      THEN [color |-> color, cost_level |-> new_cost_level,
                            owner_id |-> user_id, is_ad |-> is_ad]
                      ELSE d.pixels[c]]]
        s4 == [s3 EXCEPT !.placements = Append(@,
                  [user_id |-> user_id, cell |-> cell, color |-> color, cost |-> cost,
                   was_free |-> is_free, is_ad |-> is_ad, can_undo |-> TRUE,
                   previous_color |-> previous_state(d, cell)[1],
                   previous_owner_id |-> previous_state(d, cell)[2],
                   placed_at |-> SqlDatetime(t)])]
        s5 == [s4 EXCEPT !.last_placement = SqlDatetime(t)]
        s6 == update_dynamic_cap(s5)
    IN  <<Stage(s1, FALSE), Stage(s2, FALSE), Stage(s3, FALSE), Stage(s4, FALSE),
          Stage(s5, TRUE), Stage(s6, TRUE)>>

\* POST /place, all the statements of the request in order
place_pixel_stages(d, ulp, user_id, cell, color, is_ad, t) ==
    LET r == place_pixel(d, ulp, user_id, cell, color, is_ad, t)
        d1 == check_and_reset_week(d, t)
    IN  IF r.status = 200
        THEN reset_stages(d, t) \o
             placement_stages(d1, user_id, cell, color, is_ad, r.was_free, r.cost, t)
        ELSE IF r.status = 403 THEN <<>>
        ELSE reset_stages(d, t)

\* POST /place failing after its k-th statement
PlacePixelFailing(user_id, cell, color, is_ad, k) ==
    LET r == place_pixel(db, user_last_placement, user_id, cell, color, is_ad, now)
        stages == place_pixel_stages(db, user_last_placement, user_id, cell, color,
                                     is_ad, now)
    IN  /\ k < Len(stages)
        /\ db' = Durable(db, stages, k)
        /\ user_last_placement' = IF k >= Len(reset_stages(db, now))
                                  THEN r.ulp ELSE user_last_placement
        /\ hist' = NoHist
        /\ UNCHANGED <<now, ticks>>

\* GET /board failing after its k-th statement
GetBoardFailing(k) ==
    LET stages == reset_stages(db, now)
    IN  /\ k < Len(stages)
        /\ db' = Durable(db, stages, k)
        /\ hist' = NoHist
        /\ UNCHANGED <<user_last_placement, now, ticks>>

(**************************** specification ********************************)
\* The requests, each within the bounds of the model.
TickStep == ticks < MaxTicks /\ \E d \in Jumps : Tick(d)

CreateUserStep == Len(db.users) < MaxUsers /\ \E c \in InitialCredits : CreateUser(c)

PlaceStep(max) ==
    /\ Len(db.placements) < max
    /\ \E u \in 1..MaxUsers, cell \in Cells, color \in Colors, is_ad \in BOOLEAN :
           PlacePixel(u, cell, color, is_ad)

UndoStep == \E p \in 1..MaxPlacements, u \in 1..MaxUsers : UndoPlacement(p, u)

ReportStep ==
    /\ Len(db.reports) < MaxReportCalls
    /\ \E u \in 1..MaxUsers, cell \in Cells \cup {OutOfRange}, rows \in ReportBursts :
           ReportPixel(u, cell, rows)

\* Every handler, with a placement log of at most MaxFrozenPlacements entries.
Next ==
    \/ TickStep
    \/ CreateUserStep
    \/ GetBoard
    \/ PlaceStep(MaxFrozenPlacements)
    \/ UndoStep
    \/ ReportStep

Spec == Init /\ [][Next]_vars

\* The economy without reports: a report writes only the reports table and the
\* freeze flag, and the flag only makes placements and undos fail without a
\* write, so no user, pixel or placement row depends on the reports.
NextEconomy ==
    \/ TickStep
    \/ CreateUserStep
    \/ GetBoard
    \/ PlaceStep(MaxPlacements)
    \/ UndoStep

SpecEconomy == Init /\ [][NextEconomy]_vars

\* The economy late in a cycle of heavy use, where prices stand at the cap.  The
\* board holds CAP_TRIGGER_COUNT cells, all but two at the level the cap check
\* counts from and those two one increment below it; user 1 stands at the
\* ceiling of paid placements that still allows a free placement and user 2
\* one above it.  The last placement was made this second, as long before the
\* free window of the cycle as the inactivity threshold.  The placements that
\* built the board are older than any undo window and are not kept in the log.
CapLevel == (INITIAL_CAP_CREDITS \div COST_INCREMENT_CREDITS) * 1000

PricingElapsed == WEEK_SECONDS - FREE_WINDOW_SECONDS - INACTIVITY_THRESHOLD_SECONDS

PricingCells == {<<i, 0>> : i \in 0..(CAP_TRIGGER_COUNT - 1)}

PricingTargets == {<<0, 0>>, <<CAP_TRIGGER_COUNT - 2, 0>>, <<CAP_TRIGGER_COUNT - 1, 0>>}

PricingCredits == 3 * INITIAL_CAP_CREDITS

InitPricing ==
    /\ db = [users |-> <<[credits |-> PricingCredits,
                          lifetime_paid_placements |-> FREE_ELIGIBILITY_MAX_PAID,
                          undo_escalation_count |-> 0,
                          ad_violation_count |-> 0,
                          last_reward_month |-> NoReward],
                         [credits |-> PricingCredits,
                          lifetime_paid_placements |-> FREE_ELIGIBILITY_MAX_PAID + 1,
                          undo_escalation_count |-> 0,
                          ad_violation_count |-> 0,
                          last_reward_month |-> NoReward]>>,
             pixels |-> [c \in PricingCells |->
                            [color |-> "#000000",
                             cost_level |-> IF c[1] < CAP_TRIGGER_COUNT - 2
                                            THEN CapLevel
                                            ELSE CapLevel - COST_INCREMENT_CREDITS,
                             owner_id |-> 2,
                             is_ad |-> c[1] \in {0, CAP_TRIGGER_COUNT - 1}]],
             placements |-> <<>>,
             reports |-> <<>>,
             archives |-> <<>>,
             votes |-> {},
             purchases |-> <<>>,
             week_start |-> SqlDatetime(StartTime),
             last_placement |-> SqlDatetime(StartTime + PricingElapsed),
             current_cap |-> INITIAL_CAP_CREDITS,
             board_frozen |-> "0"]
    /\ user_last_placement = [u \in 1..MaxUsers |-> 0]
    /\ now = StartTime + PricingElapsed
    /\ ticks = 0
    /\ hist = NoHist

PricingPlaceStep ==
    /\ Len(db.placements) < MaxPlacements
    /\ \E u \in 1..MaxUsers, cell \in PricingTargets :
           PlacePixel(u, cell, "#FFFFFF", FALSE)

NextPricing ==
    \/ TickStep
    \/ GetBoard
    \/ PricingPlaceStep
    \/ UndoStep

SpecPricing == InitPricing /\ [][NextPricing]_vars

\* The placements and the weekly cycle with requests that fail part-way.
MaxArchives == 2
MaxStatements == 12

CrashCell == <<0, 0>>

CrashPlaceStep ==
    /\ Len(db.placements) < MaxPlacements
    /\ \E u \in 1..MaxUsers, is_ad \in BOOLEAN :
           PlacePixel(u, CrashCell, "#000000", is_ad)

PlaceFailingStep ==
    /\ Len(db.placements) < MaxPlacements
    /\ Len(db.archives) < MaxArchives
    /\ \E u \in 1..MaxUsers, k \in 0..MaxStatements :
           PlacePixelFailing(u, CrashCell, "#FFFFFF", FALSE, k)

GetBoardFailingStep ==
    /\ Len(db.archives) < MaxArchives
    /\ \E k \in 0..MaxStatements : GetBoardFailing(k)

NextCrash ==
    \/ TickStep
    \/ CreateUserStep
    \/ GetBoard
    \/ CrashPlaceStep
    \/ PlaceFailingStep
    \/ GetBoardFailingStep

SpecCrash == Init /\ [][NextCrash]_vars

\* The monthly vote.  The requests start from a database with a history: two
\* users, and four cycles closed by a placement on 1970-08-03, 1970-08-20,
\* 1970-12-10 and 1971-02-05 at noon (a cycle runs until the first request
\* after its seventh day).  The request that closes a cycle places for free,
\* after the long silence; one second later the other user pays for a
\* placement.  The history is what the handlers themselves make of these
\* requests.
ArchiveDays == <<214, 231, 343, 400>>
PaidBy == <<1, 2, 1, 1>>
Noon == SecondsPerDay \div 2
VotesCredits == 3250

RECURSIVE ReplayCycles(_, _, _)
ReplayCycles(d, ulp, i) ==
    IF i > Len(ArchiveDays) THEN [db |-> d, ulp |-> ulp]
    ELSE LET t == ArchiveDays[i] * SecondsPerDay + Noon
             free == place_pixel(d, ulp, 3 - PaidBy[i], <<1023, 1023>>, "#000000",
                                 FALSE, t)
             paid == place_pixel(free.db, free.ulp, PaidBy[i], <<0, 0>>, "#FFFFFF",
                                 FALSE, t + 1)
         IN  ReplayCycles(paid.db, paid.ulp, i + 1)

VotesHistory ==
    LET empty == [users |-> <<>>,
                  pixels |-> [c \in {} |-> NoRow],
                  placements |-> <<>>,
                  reports |-> <<>>,
                  archives |-> <<>>,
                  votes |-> {},
                  purchases |-> <<>>,
                  week_start |-> SqlDatetime(StartTime),
                  last_placement |-> SqlDatetime(StartTime),
                  current_cap |-> INITIAL_CAP_CREDITS,
                  board_frozen |-> "0"]
        users == create_user(create_user(empty, VotesCredits), VotesCredits)
    IN  ReplayCycles(users, [u \in 1..MaxUsers |-> 0], 1)

InitVotes ==
    /\ db = VotesHistory.db
    /\ user_last_placement = VotesHistory.ulp
    /\ now = ArchiveDays[Len(ArchiveDays)] * SecondsPerDay + Noon + 1
    /\ ticks = 0
    /\ hist = NoRewards

\* The months asked for: those of the archives and one without an archive.
ResolveMonths == {<<1970, 8>>, <<1970, 9>>, <<1970, 12>>, <<1971, 2>>}

VoteStep ==
    \E u \in 1..(MaxUsers + 1), a \in 0..Len(db.archives) : VoteForArchive(u, a)

MonthlyWinnerStep == \E ym \in ResolveMonths : MonthlyWinner(ym[1], ym[2])

NextVotes ==
    \/ VoteStep
    \/ MonthlyWinnerStep

SpecVotes == InitVotes /\ [][NextVotes]_vars

\* A cycle of the long-running service: the database with the history above,
\* in the second after the last paid placement (which its user can still
\* undo), and from there votes, reports, undos, board reads and the clock.
InitCycle ==
    /\ db = VotesHistory.db
    /\ user_last_placement = VotesHistory.ulp
    /\ now = ArchiveDays[Len(ArchiveDays)] * SecondsPerDay + Noon + 1
    /\ ticks = 0
    /\ hist = NoHist

CycleVoteStep ==
    \E u \in 1..MaxUsers, a \in {1, Len(db.archives)} : VoteForArchive(u, a)

CycleUndoStep == \E u \in 1..MaxUsers : UndoPlacement(Len(db.placements), u)

CycleReportStep ==
    /\ Len(db.reports) < MaxReportCalls
    /\ \E rows \in {1, REPORT_FREEZE_THRESHOLD} : ReportPixel(1, <<0, 0>>, rows)

NextCycle ==
    \/ TickStep
    \/ GetBoard
    \/ CycleVoteStep
    \/ CycleUndoStep
    \/ CycleReportStep

SpecCycle == InitCycle /\ [][NextCycle]_vars

\* The requests as they keep arriving.  Here `hist` holds the parity of the
\* requests served (in its id field), so that a request that is rejected and
\* writes nothing is a step of the behaviour like any other.  The placement log
\* needs no bound: the rate limit allows a user one placement per clock value.
Served == [NoHist EXCEPT !.id = 1 - hist.id]

LiveCreateUser ==
    /\ db.users = <<>>
    /\ db' = create_user(db, VotesCredits)
    /\ hist' = Served
    /\ UNCHANGED <<user_last_placement, now, ticks>>

LivePlace ==
    \E cell \in Cells :
        LET r == place_pixel(db, user_last_placement, 1, cell, "#FFFFFF", FALSE, now)
        IN  /\ db' = r.db
            /\ user_last_placement' = r.ulp
            /\ hist' = Served
            /\ UNCHANGED <<now, ticks>>

LiveGetBoard ==
    /\ db' = check_and_reset_week(db, now)
    /\ hist' = Served
    /\ UNCHANGED <<user_last_placement, now, ticks>>

LiveReport ==
    /\ Len(db.reports) < MaxReportCalls
    /\ \E rows \in {1, REPORT_FREEZE_THRESHOLD} :
           /\ db' = report_pixel(db, 1, <<0, 0>>, rows, now).db
           /\ hist' = Served
           /\ UNCHANGED <<user_last_placement, now, ticks>>

NextLive ==
    \/ TickStep
    \/ LiveCreateUser
    \/ LivePlace
    \/ LiveGetBoard
    \/ LiveReport

\* Placement or board-read requests keep arriving: uvicorn serves every request
\* it receives, one at a time, so a request that arrives is a step.
ArrivalsLive == WF_vars(LivePlace \/ LiveGetBoard)

SpecLive == Init /\ [][NextLive]_vars /\ ArrivalsLive

\* The purchases: two users with nothing on their accounts, the checkout
\* sessions they open, and the events Stripe delivers for them: for a session
\* that was opened (paid, or expired unpaid) or for one this database does not
\* know.
MaxPurchases == 2
MaxDeliveries == 3

Packages == {"small", "large", "xl"}

EventTypes == {"checkout.session.completed", "checkout.session.expired"}

InitPurchase ==
    /\ db = create_user(create_user(
                [users |-> <<>>,
                 pixels |-> [c \in {} |-> NoRow],
                 placements |-> <<>>,
                 reports |-> <<>>,
                 archives |-> <<>>,
                 votes |-> {},
                 purchases |-> <<>>,
                 week_start |-> SqlDatetime(StartTime),
                 last_placement |-> SqlDatetime(StartTime),
                 current_cap |-> INITIAL_CAP_CREDITS,
                 board_frozen |-> "0"], 0), 0)
    /\ user_last_placement = [u \in 1..MaxUsers |-> 0]
    /\ now = StartTime
    /\ ticks = 0
    /\ hist = NoEvents

CheckoutStep ==
    /\ Len(db.purchases) < MaxPurchases
    /\ \E u \in 0..MaxUsers, package \in Packages : CreateCheckoutSession(u, package)

WebhookStep ==
    /\ Len(hist.delivered) < MaxDeliveries
    /\ \E type \in EventTypes, session_id \in 1..(Len(db.purchases) + 1) :
           StripeWebhook(type, session_id)

NextPurchase ==
    \/ CheckoutStep
    \/ WebhookStep

SpecPurchase == InitPurchase /\ [][NextPurchase]_vars

(******************************** claims ***********************************)
Users == DOMAIN db.users
Placements == DOMAIN db.placements

\* C1: in every reachable state, whatever the order of the placement and undo
\* requests of the users, every user's credit balance is >= 0 (users start with
\* a non-negative balance).
C1_BalanceNonNegative == \A u \in Users : db.users[u].credits >= 0

\* A user has paid for placements and for an undo, and is down to exactly 0.
C1_Witness ==
    \E u \in Users :
        /\ db.users[u].credits = 0
        /\ db.users[u].lifetime_paid_placements > 0
        /\ db.users[u].undo_escalation_count > 0

\* C2: two placements on the same coordinates by different users, served one
\* right after the other, serialize: the second records the colour and owner the
\* first wrote as its previous state, the first records the cell as it was
\* before both (so it does not see the second), and the cell ends with the
\* colour and owner of the second.
C2_PlacementsSerialize ==
    (hist.op = "place" /\ hist.prior.id # 0) =>
        LET first == db.placements[hist.prior.id]
            second == db.placements[hist.id]
        IN  (first.cell = second.cell /\ first.user_id # second.user_id) =>
                /\ second.previous_color = first.color
                /\ second.previous_owner_id = first.user_id
                /\ first.previous_color = hist.prior.pixel.color
                /\ first.previous_owner_id = hist.prior.pixel.owner_id
                /\ db.pixels[second.cell].color = second.color
                /\ db.pixels[second.cell].owner_id = second.user_id

C2_Witness ==
    /\ hist.op = "place" /\ hist.prior.id # 0
    /\ db.placements[hist.prior.id].cell = db.placements[hist.id].cell
    /\ db.placements[hist.prior.id].user_id # db.placements[hist.id].user_id
    /\ db.placements[hist.prior.id].color # db.placements[hist.id].color
    /\ db.placements[hist.prior.id].placed_at = db.placements[hist.id].placed_at

\* C3: crossing a cycle boundary is idempotent: however many requests run the
\* boundary check once cycle start + 7 days has passed, one archive is written
\* and one reset done per boundary.  The archives cover consecutive periods of at
\* least 7 days each, starting at the first cycle start, and the current cycle
\* starts where the last archive ends.
C3_OneArchivePerBoundary ==
    LET n == Len(db.archives)
        a == db.archives
    IN  /\ n * WEEK_SECONDS <= now - StartTime
        /\ \A i \in 1..n :
               /\ FromIsoFormat(a[i].week_end) - FromIsoFormat(a[i].week_start)
                      >= WEEK_SECONDS
               /\ a[i].week_start = IF i = 1 THEN IsoFormat(StartTime)
                                     ELSE a[i - 1].week_end
        /\ db.week_start = IF n = 0 THEN SqlDatetime(StartTime)
                           ELSE SqlDatetime(FromIsoFormat(a[n].week_end))

\* Two placements ran the boundary check in the second the week ended in.
C3_Witness ==
    /\ Len(db.archives) = 1
    /\ db.archives[1].week_end = IsoFormat(now)
    /\ Cardinality({p \in Placements : db.placements[p].placed_at = SqlDatetime(now)}) >= 2

\* The step is the committed undo of placement p.
UndoCommitted(p) == db.placements[p].can_undo /\ ~db'.placements[p].can_undo

\* C4: an undo of a placement by the same user, with no other request served in
\* between, leaves the cell with exactly the colour and owner it had before the
\* placement, and removes the cell if it did not exist before the placement.
C4_UndoRestoresCell ==
    [][\A p \in Placements :
          (UndoCommitted(p) /\ hist.op = "place" /\ hist.id = p) =>
              IF hist.pre.pixel.color = NoRow
              THEN hist.cell \notin DOMAIN db'.pixels
              ELSE /\ hist.cell \in DOMAIN db'.pixels
                   /\ db'.pixels[hist.cell].color = hist.pre.pixel.color
                   /\ db'.pixels[hist.cell].owner_id = hist.pre.pixel.owner_id]_vars

\* A placement over another user's pixel of another colour has been undone, and
\* the cell shows that user's pixel.
C4_Witness ==
    \E p \in Placements :
        LET r == db.placements[p]
        IN  /\ ~r.can_undo
            /\ r.previous_color # NoRow
            /\ r.previous_color # r.color
            /\ r.previous_owner_id # r.user_id
            /\ r.cell \in DOMAIN db.pixels
            /\ db.pixels[r.cell].color = r.previous_color
            /\ db.pixels[r.cell].owner_id = r.previous_owner_id

\* C5: for a paid placement directly followed by its undo, the balance after the
\* undo is the balance before the placement minus the undo cost.
C5_UndoKeepsOnlyUndoCost ==
    [][\A p \in Placements :
          (UndoCommitted(p) /\ hist.op = "place" /\ hist.id = p
              /\ ~db.placements[p].was_free) =>
              db'.users[hist.user].credits =
                  hist.pre.credits
                    - undo_cost_of(db.placements[p].cost,
                                   db.users[hist.user].undo_escalation_count)]_vars

\* C6: a placement record is undone at most once: once undone it stays undone,
\* and every undo request for it, by any user, leaves the database (balances,
\* undo-escalation counters, cells) as it was.
C6_UndoAtMostOnce ==
    [][\A p \in Placements :
          ~db.placements[p].can_undo =>
              /\ ~db'.placements[p].can_undo
              /\ \A u \in 1..MaxUsers : UndoPlacement(p, u) => db' = db]_vars

\* An undone paid placement that passes every other check of an undo: the board
\* is not frozen, the window is open and its user can afford the undo cost.
C6_Witness ==
    \E p \in Placements :
        LET r == db.placements[p]
            u == db.users[r.user_id]
        IN  /\ ~r.can_undo
            /\ r.cost > 0
            /\ db.board_frozen = "0"
            /\ ~UndoWindowExpired(r.placed_at, now)
            /\ u.credits >= undo_cost_of(r.cost, u.undo_escalation_count)
            /\ undo_cost_of(r.cost, u.undo_escalation_count) > 0

\* The reports recorded later than the second the current cycle started in.
ReportsAfterCycleStart(d) ==
    LET Later(r) == FromIsoFormat(r.reported_at) > get_week_start(d)
    IN  SumRows(SelectSeq(d.reports, Later))

\* The reports recorded in or after the second the current cycle started in.
ReportsSinceCycleStart(d) ==
    LET Since(r) == FromIsoFormat(r.reported_at) >= get_week_start(d)
    IN  SumRows(SelectSeq(d.reports, Since))

\* C7: within a cycle the board is frozen exactly when the reports recorded since
\* the cycle start have reached the threshold: frozen once they number
\* REPORT_FREEZE_THRESHOLD, not frozen while they number less.
C7_FrozenExactlyAtThreshold ==
    /\ ReportsAfterCycleStart(db) >= REPORT_FREEZE_THRESHOLD => db.board_frozen = "1"
    /\ db.board_frozen = "1" => ReportsSinceCycleStart(db) >= REPORT_FREEZE_THRESHOLD

\* C8: while the freeze flag is set every placement request, whatever the user's
\* balance or free eligibility, is rejected as frozen and leaves the database
\* (balances, cells, placement log) and the rate-limit map unchanged.
C8_FrozenRejectsPlacement ==
    db.board_frozen = "1" =>
        \A u \in 1..MaxUsers, cell \in Cells, color \in Colors, is_ad \in BOOLEAN :
            LET r == place_pixel(db, user_last_placement, u, cell, color, is_ad, now)
            IN  /\ r.status = 403
                /\ r.db = db
                /\ r.ulp = user_last_placement

\* The board is frozen, one user could pay for a placement and one would get
\* it for free.
C8_Witness ==
    /\ db.board_frozen = "1"
    /\ \E u \in Users : db.users[u].credits >= BASE_COST_CREDITS
    /\ \E u \in Users : is_free_placement_eligible(db, u, now)[1]
    /\ \E u \in Users : ~RateLimited(user_last_placement, u, now)

\* C9: within a cycle a cell's escalation level and a user's paid-placement
\* count only increase, except that a committed undo takes off the cell's level
\* and (for a paid placement) the user's count exactly what the placement added.
C9_CountersDecrementOnUndo ==
    [][/\ \A p \in Placements :
             UndoCommitted(p) =>
                 LET r == db.placements[p]
                 IN  /\ db'.users[r.user_id].lifetime_paid_placements =
                            db.users[r.user_id].lifetime_paid_placements
                              - (IF r.was_free THEN 0 ELSE 1)
                     /\ r.cell \in DOMAIN db'.pixels =>
                            db'.pixels[r.cell].cost_level =
                                db.pixels[r.cell].cost_level - COST_INCREMENT_CREDITS
       /\ ((\A p \in Placements : ~UndoCommitted(p))
              /\ Len(db'.archives) = Len(db.archives)) =>
             /\ \A u \in Users : db'.users[u].lifetime_paid_placements
                                     >= db.users[u].lifetime_paid_placements
             /\ \A c \in DOMAIN db.pixels \cap DOMAIN db'.pixels :
                    db'.pixels[c].cost_level >= db.pixels[c].cost_level]_vars

\* The step commits a placement on cell c.
PlacedInStep(c) ==
    /\ Len(db'.placements) > Len(db.placements)
    /\ db'.placements[Len(db'.placements)].cell = c

\* C10: every cell's escalation level is >= 0 in every reachable state, and the
\* reset of a cycle boundary leaves every existing cell at level exactly 0: in
\* the database as the boundary check leaves it, and so after the request that
\* ran it, where only a cell that this request went on to place on is one
\* increment above 0.
C10_LevelsNonNegativeAndReset ==
    /\ [](\A c \in DOMAIN db.pixels : db.pixels[c].cost_level >= 0)
    /\ [](WeekPassed(db, now) =>
             \A c \in DOMAIN db.pixels :
                 check_and_reset_week(db, now).pixels[c].cost_level = 0)
    /\ [][Len(db'.archives) > Len(db.archives) =>
             \A c \in DOMAIN db'.pixels :
                 db'.pixels[c].cost_level =
                     IF PlacedInStep(c) THEN COST_INCREMENT_CREDITS ELSE 0]_vars

\* A cell placed on before the last reset stands at level 0.
C10_Witness ==
    /\ Len(db.archives) >= 1
    /\ \E p \in Placements :
           /\ FromIsoFormat(db.placements[p].placed_at) < get_week_start(db)
           /\ db.placements[p].cell \in DOMAIN db.pixels
           /\ db.pixels[db.placements[p].cell].cost_level = 0

\* The cost the pricing rule gives for level L, ad flag and cap: the base cost
\* plus floor(L * increment / 1000), less a tenth truncated toward zero on an ad
\* cell, clamped to the cap.
PricingRule(L, ad, cap) ==
    LET computed == BASE_COST_CREDITS + ((L * COST_INCREMENT_CREDITS) \div 1000)
        discounted == IF ad THEN (computed * 9) \div 10 ELSE computed
    IN  IF discounted > cap THEN cap ELSE discounted

\* C11: for every cell, claimed or not, the computed placement cost is
\* min(cap, D(1000 + floor(L * 1000 / 1000))) with D the 10% ad discount
\* truncated toward zero; a level-0 non-ad cell costs exactly 1000; and the cost
\* of every committed paid placement is the rule's value for the cell as the
\* request found it and never exceeds the cap in force when it was computed.
\* (The computation only reads the database: calculate_pixel_cost is a function
\* of the state.)
C11_CostFormula ==
    /\ [](\A c \in DOMAIN db.pixels \cup {<<1023, 1023>>} :
             /\ calculate_pixel_cost(db, c) =
                    PricingRule(PixelRow(db, c).cost_level, PixelRow(db, c).is_ad,
                                db.current_cap)
             /\ (PixelRow(db, c).cost_level = 0 /\ ~PixelRow(db, c).is_ad) =>
                    calculate_pixel_cost(db, c) = BASE_COST_CREDITS)
    /\ [][\A c \in DOMAIN db'.pixels :
             (PlacedInStep(c) /\ ~db'.placements[Len(db'.placements)].was_free) =>
                 LET d1 == check_and_reset_week(db, now)
                     cost == db'.placements[Len(db'.placements)].cost
                 IN  /\ cost <= d1.current_cap
                     /\ cost = PricingRule(PixelRow(d1, c).cost_level,
                                           PixelRow(d1, c).is_ad, d1.current_cap)]_vars

\* A paid placement on a cell already at the cap level was charged the cap, less
\* than the unclamped price.
C11_Witness ==
    \E p \in Placements :
        LET r == db.placements[p]
        IN  /\ ~r.was_free
            /\ r.cost = INITIAL_CAP_CREDITS
            /\ r.cell \in DOMAIN db.pixels
            /\ db.pixels[r.cell].cost_level = CapLevel + COST_INCREMENT_CREDITS
            /\ db.placements[Len(db.placements)] = r

\* The two triggers of a free placement as the database d shows them at time t.
InactiveFor(d, t) == t - FromIsoFormat(d.last_placement)

CycleRemaining(d, t) == (FromIsoFormat(d.week_start) + WEEK_SECONDS) - t

UnderCeiling(d, u) == d.users[u].lifetime_paid_placements <= FREE_ELIGIBILITY_MAX_PAID

\* The request of this step has committed a placement; its record.
Placed == Len(db'.placements) > Len(db.placements)

NewRecord == db'.placements[Len(db'.placements)]

\* What a committed placement must show if it is free exactly when `eligible`.
FreeExactlyWhen(eligible) ==
    LET r == NewRecord
        d1 == check_and_reset_week(db, now)
        u == r.user_id
    IN  /\ r.was_free <=> eligible
        /\ r.was_free =>
               /\ r.cost = 0
               /\ db'.users[u].credits = d1.users[u].credits
               /\ db'.users[u].lifetime_paid_placements =
                      d1.users[u].lifetime_paid_placements
        /\ ~UnderCeiling(d1, u) => ~r.was_free

\* C12 as stated: a committed placement is free exactly when the user's
\* lifetime paid-placement count is at or below 500 and either the time since
\* the last placement exceeds 1800 s or less than 21600 s remain of the cycle;
\* a free placement charges 0 and leaves balance and paid count unchanged, and
\* a user above the ceiling never places for free.
C12_FreeWhenInactivityExceeds ==
    [][Placed =>
          LET d1 == check_and_reset_week(db, now)
              u == NewRecord.user_id
          IN  FreeExactlyWhen(/\ UnderCeiling(d1, u)
                              /\ \/ InactiveFor(d1, now) > INACTIVITY_THRESHOLD_SECONDS
                                 \/ CycleRemaining(d1, now) < FREE_WINDOW_SECONDS)]_vars

\* C12, amended: the inactivity trigger holds when the time since the last
\* placement is at least 1800 s (not only when it exceeds 1800 s); the reason
\* is "inactivity" whenever that trigger holds and "end_of_week" when only the
\* other does.
C12_FreeWhenInactivityReaches ==
    /\ [][Placed =>
             LET d1 == check_and_reset_week(db, now)
                 u == NewRecord.user_id
             IN  FreeExactlyWhen(/\ UnderCeiling(d1, u)
                                 /\ \/ InactiveFor(d1, now) >= INACTIVITY_THRESHOLD_SECONDS
                                    \/ CycleRemaining(d1, now) < FREE_WINDOW_SECONDS)]_vars
    /\ [](\A u \in Users :
             LET e == is_free_placement_eligible(db, u, now)
             IN  e[2] = IF ~e[1] THEN NoRow
                        ELSE IF InactiveFor(db, now) >= INACTIVITY_THRESHOLD_SECONDS
                        THEN "inactivity" ELSE "end_of_week")

\* In the last six hours of the cycle, within one second, the user at the
\* ceiling has placed for free and the user above it has paid.
C12_Witness ==
    \E p, q \in Placements :
        LET f == db.placements[p]
            g == db.placements[q]
        IN  /\ f.was_free /\ ~g.was_free
            /\ f.placed_at = g.placed_at
            /\ CycleRemaining(db, FromIsoFormat(g.placed_at)) < FREE_WINDOW_SECONDS
            /\ CycleRemaining(db, FromIsoFormat(g.placed_at)) > 0
            /\ db.users[f.user_id].lifetime_paid_placements = FREE_ELIGIBILITY_MAX_PAID
            /\ db.users[g.user_id].lifetime_paid_placements > FREE_ELIGIBILITY_MAX_PAID + 1

\* The cell c shows no effect of a placement in this step (the weekly reset may
\* have put its level to 0).
CellUntouched(c) ==
    /\ c \in DOMAIN db'.pixels
    /\ db'.pixels[c].color = db.pixels[c].color
    /\ db'.pixels[c].owner_id = db.pixels[c].owner_id
    /\ db'.pixels[c].is_ad = db.pixels[c].is_ad
    /\ db'.pixels[c].cost_level \in {db.pixels[c].cost_level, 0}

\* The user u shows no effect of a placement in this step.
UserUntouched(u) ==
    /\ db'.users[u].credits = db.users[u].credits
    /\ db'.users[u].lifetime_paid_placements = db.users[u].lifetime_paid_placements

\* C13: a committed placement takes effect as a whole.  In every step of the
\* database file, requests that fail between two statements included, either no
\* record is appended and no balance, paid count, cell or last-placement time
\* shows a placement, or exactly one record is appended and all of its effects
\* are there: the user's balance is down by the recorded cost and the paid count
\* up by 1 (a paid placement), the cell has the requested colour, owner, ad flag
\* and its level one increment up, the record holds the cell's colour and owner
\* from before (none if unclaimed), and the last-placement time is the
\* record's.
C13_PlacementAtomic ==
    [][IF Len(db'.placements) = Len(db.placements)
       THEN /\ db'.placements = db.placements
            /\ \A u \in DOMAIN db.users : UserUntouched(u)
            /\ DOMAIN db'.pixels = DOMAIN db.pixels
            /\ \A c \in DOMAIN db.pixels : CellUntouched(c)
            /\ db'.last_placement = db.last_placement
       ELSE LET r == NewRecord
                u == r.user_id
                c == r.cell
                before == PixelRow(db, c)
                reset == Len(db'.archives) > Len(db.archives)
            IN  /\ Len(db'.placements) = Len(db.placements) + 1
                /\ \A p \in DOMAIN db.placements : db'.placements[p] = db.placements[p]
                /\ db'.users[u].credits = db.users[u].credits - r.cost
                /\ db'.users[u].lifetime_paid_placements =
                       db.users[u].lifetime_paid_placements + (IF r.was_free THEN 0 ELSE 1)
                /\ r.was_free => r.cost = 0
                /\ \A v \in DOMAIN db.users \ {u} : UserUntouched(v)
                /\ DOMAIN db'.pixels = DOMAIN db.pixels \cup {c}
                /\ db'.pixels[c] =
                       [color |-> r.color, owner_id |-> u, is_ad |-> r.is_ad,
                        cost_level |-> (IF reset THEN 0 ELSE before.cost_level)
                                           + COST_INCREMENT_CREDITS]
                /\ \A e \in DOMAIN db.pixels \ {c} : CellUntouched(e)
                /\ r.previous_color = before.color
                /\ r.previous_owner_id = before.owner_id
                /\ r.placed_at = SqlDatetime(now)
                /\ db'.last_placement = r.placed_at]_vars

\* A request of a user who can pay any price on the board got past the rate
\* limit this second and left no record, and a paid placement over another
\* user's pixel stands committed.
C13_Witness ==
    /\ \E u \in Users :
           /\ user_last_placement[u] = now
           /\ db.users[u].credits >= BASE_COST_CREDITS + MaxPlacements * COST_INCREMENT_CREDITS
           /\ \A p \in Placements :
                  db.placements[p].user_id = u => db.placements[p].placed_at # SqlDatetime(now)
    /\ \E p \in Placements :
           /\ ~db.placements[p].was_free
           /\ db.placements[p].previous_color # NoRow
           /\ db.placements[p].previous_owner_id # db.placements[p].user_id

\* The undo request of user u for placement id p, as the database stands.
UndoRequest(p, u) == undo_placement(db, p, u, now)

\* C14: an undo request succeeds only if the placement record exists, belongs
\* to the requesting user, has not been undone, was created at most 300 s
\* earlier, the board is not frozen, and the user's balance is at least the undo
\* cost the request computes; a request that lacks any of these is rejected and
\* leaves the whole database (the user's balance and undo-escalation counter,
\* the cell, the record's undone flag) as it was.
C14_UndoPreconditions ==
    \A p \in 0..MaxPlacements, u \in 1..MaxUsers :
        LET r == UndoRequest(p, u)
            allowed == /\ p \in Placements
                       /\ db.placements[p].user_id = u
                       /\ db.placements[p].can_undo
                       /\ now - FromIsoFormat(db.placements[p].placed_at)
                              <= UNDO_WINDOW_SECONDS
                       /\ db.board_frozen # "1"
                       /\ u \in Users
                       /\ db.users[u].credits >= r.cost
        IN  /\ r.status = 200 => allowed
            /\ ~allowed => (r.status # 200 /\ r.db = db)

\* A placement that its user could still undo, were it one second younger: it
\* is one second past the window, and the board is not frozen.
C14_Witness ==
    \E p \in Placements :
        LET r == db.placements[p]
        IN  /\ r.can_undo
            /\ now - FromIsoFormat(r.placed_at) = UNDO_WINDOW_SECONDS + 1
            /\ db.board_frozen = "0"
            /\ r.cost > 0
            /\ db.users[r.user_id].credits
                   >= undo_cost_of(r.cost, db.users[r.user_id].undo_escalation_count)

\* C15: the cost of a successful undo is floor(original cost * (25% + 10% * k)),
\* k being the successful undos the user has already made in the current cycle
\* (the undo-escalation counter); the undo raises that counter by exactly 1; and
\* the counter goes down only in a cycle-boundary reset, which puts it to 0.
C15_UndoCostEscalates ==
    /\ [][\A p \in Placements :
             UndoCommitted(p) =>
                 LET r == db.placements[p]
                     k == db.users[r.user_id].undo_escalation_count
                 IN  /\ db.users[r.user_id].credits - db'.users[r.user_id].credits =
                            (r.cost * (UNDO_BASE_PERCENT + UNDO_INCREMENT_PERCENT * k))
                                \div 100
                     /\ db'.users[r.user_id].undo_escalation_count = k + 1]_vars
    /\ [][\A u \in Users :
             db'.users[u].undo_escalation_count < db.users[u].undo_escalation_count =>
                 /\ Len(db'.archives) > Len(db.archives)
                 /\ db'.users[u].undo_escalation_count = 0]_vars

\* The calendar month a vote counts for.
VoteMonth(v) == [year |-> v.year, month |-> v.month]

\* C16: for every user and calendar month at most one vote is ever recorded
\* (the month being that of the week-end of the archive voted for); a further
\* vote by the same user for any archive whose week-end falls in that month is
\* rejected and leaves the vote table unchanged, whichever archive it targets.
C16_OneVotePerMonth ==
    /\ \A v, w \in db.votes :
           (v.user_id = w.user_id /\ VoteMonth(v) = VoteMonth(w)) => v = w
    /\ \A v \in db.votes :
           /\ v.archive_id \in DOMAIN db.archives
           /\ VoteMonth(v) = YearMonth(db.archives[v.archive_id].week_end)
    /\ \A v \in db.votes, a \in DOMAIN db.archives :
           YearMonth(db.archives[a].week_end) = VoteMonth(v) =>
               LET r == vote_for_archive(db, v.user_id, a)
               IN  r.status = 400 /\ r.db = db

\* Both users have voted in a month with two archives, one for each archive,
\* and one of them has voted in another month as well.
C16_Witness ==
    \E v, w, x \in db.votes :
        /\ v.user_id # w.user_id
        /\ VoteMonth(v) = VoteMonth(w)
        /\ v.archive_id # w.archive_id
        /\ x.user_id = v.user_id
        /\ VoteMonth(x) # VoteMonth(v)

\* The calendar months from the year-month x to the year-month y.
MonthsFrom(x, y) == (y.year - x.year) * 12 + (y.month - x.month)

MonthsApart(x, y) == IF MonthsFrom(x, y) < 0 THEN MonthsFrom(y, x) ELSE MonthsFrom(x, y)

\* The rewards granted to user u so far.
RewardsOf(u) == {i \in DOMAIN hist.granted : hist.granted[i].user_id = u}

\* C17: over any sequence of monthly-winner resolutions (any months, in any
\* order, any number of times), any two rewards granted to the same user are for
\* year-months at least 6 calendar months apart; in particular no user is
\* granted the reward of one month twice, however often the month is resolved.
\* A resolution that ends in no winner or in active cooldown leaves the
\* database, and so every balance, as it was; a balance changes only by a
\* granted reward, by exactly the reward, for the rewarded user alone.
C17_RewardsSixMonthsApart ==
    /\ [](\A u \in Users : \A i, j \in RewardsOf(u) :
             i # j => MonthsApart(hist.granted[i], hist.granted[j])
                          >= REWARD_COOLDOWN_MONTHS)
    /\ [](\A ym \in ResolveMonths :
             \A r \in monthly_winner_outcomes(db, ym[1], ym[2]) :
                 (r.winner = NoWinner \/ r.cooldown_active) =>
                     (~r.reward_given /\ r.db = db))
    /\ [][\A u \in Users :
             db'.users[u].credits =
                 db.users[u].credits
                   + (IF /\ Len(hist'.granted) = Len(hist.granted) + 1
                         /\ hist'.granted[Len(hist'.granted)].user_id = u
                      THEN MONTHLY_REWARD_CREDITS ELSE 0)]_vars
    /\ [][Len(hist'.granted) \in {Len(hist.granted), Len(hist.granted) + 1}]_vars

\* A user holds two rewards exactly six months apart, across the turn of the
\* year, and is refused the reward of the month in between, which the user
\* would win.
C17_Witness ==
    \E u \in Users : \E i, j \in RewardsOf(u) :
        /\ MonthsFrom(hist.granted[i], hist.granted[j]) = REWARD_COOLDOWN_MONTHS
        /\ hist.granted[i].year < hist.granted[j].year
        /\ \E ym \in ResolveMonths :
               /\ MonthsFrom(hist.granted[i], [year |-> ym[1], month |-> ym[2]]) > 0
               /\ MonthsFrom([year |-> ym[1], month |-> ym[2]], hist.granted[j]) > 0
               /\ \E r \in monthly_winner_outcomes(db, ym[1], ym[2]) :
                      r.winner = u /\ r.cooldown_active

\* The step leaves the database with one more archive.
ArchiveWritten == Len(db'.archives) > Len(db.archives)

\* The step leaves the database with the cycle state reset: the cycle starts
\* now, the cap is the initial one, the board is not frozen, every undo
\* counter is 0 and so is every level, but for a cell placed on after the reset.
CycleReset ==
    /\ db'.week_start = SqlDatetime(now)
    /\ db'.current_cap = INITIAL_CAP_CREDITS
    /\ db'.board_frozen = "0"
    /\ \A u \in DOMAIN db'.users : db'.users[u].undo_escalation_count = 0
    /\ \A c \in DOMAIN db'.pixels :
           db'.pixels[c].cost_level = IF PlacedInStep(c) THEN COST_INCREMENT_CREDITS ELSE 0

\* C18: the cycle-boundary crossing is all-or-nothing.  A request, failing ones
\* included, either leaves one more archive and the cycle state reset, or
\* leaves no archive behind and the cycle start, the cap and the freeze flag as
\* they were; so in every state of the database file the current cycle starts
\* where the last archive ends (at the first cycle start if there is none).
C18_BoundaryAllOrNothing ==
    /\ [][IF ArchiveWritten
          THEN Len(db'.archives) = Len(db.archives) + 1 /\ CycleReset
          ELSE /\ db'.archives = db.archives
               /\ db'.week_start = db.week_start
               /\ db'.current_cap \in {db.current_cap, LOWER_CAP_CREDITS}
               /\ db'.board_frozen = db.board_frozen]_vars
    /\ [](db.week_start =
             IF db.archives = <<>> THEN SqlDatetime(StartTime)
             ELSE SqlDatetime(FromIsoFormat(db.archives[Len(db.archives)].week_end)))

\* C19: the freeze flag is a one-way transition within a cycle.  Once set it
\* stays set through every report, placement attempt and undo attempt (each of
\* them leaves it set, whatever its arguments), and a step that clears it is a
\* cycle-boundary reset: it writes an archive and starts the cycle anew.
C19_FreezeOneWay ==
    /\ [](db.board_frozen = "1" =>
             /\ \A u \in 1..MaxUsers, cell \in Cells \cup {OutOfRange},
                   rows \in ReportBursts :
                    report_pixel(db, u, cell, rows, now).db.board_frozen = "1"
             /\ \A u \in 1..MaxUsers, cell \in Cells, color \in Colors, is_ad \in BOOLEAN :
                    place_pixel(db, user_last_placement, u, cell, color, is_ad, now)
                        .db.board_frozen = "1"
             /\ \A p \in 0..MaxPlacements, u \in 1..MaxUsers :
                    undo_placement(db, p, u, now).db.board_frozen = "1")
    /\ [][(db.board_frozen = "1" /\ db'.board_frozen # "1") =>
             /\ ArchiveWritten
             /\ WeekPassed(db, now)
             /\ db'.week_start = SqlDatetime(now)]_vars

\* The board is frozen, a report has been recorded after the one that froze
\* it, and a placement stands that its user could undo but for the freeze.
C19_Witness ==
    /\ db.board_frozen = "1"
    /\ Len(db.reports) = 2
    /\ db.reports[1].rows >= REPORT_FREEZE_THRESHOLD
    /\ TextGE(db.reports[1].reported_at, IsoFormat(get_week_start(db)))
    /\ \E p \in Placements :
           /\ db.placements[p].can_undo
           /\ ~UndoWindowExpired(db.placements[p].placed_at, now)

\* The cells of the database d at or above the level the cap check counts from.
CellsAtCapLevel(d) == {c \in DOMAIN d.pixels : d.pixels[c].cost_level >= CapLevel}

\* C20: the global cap is a one-way ratchet within a cycle.  It takes only the
\* initial or the lower value.  A step that lowers it commits a placement, finds
\* the cap still initial, and leaves at least CAP_TRIGGER_COUNT cells at or
\* above the level of the cap (cap // increment * 1000).  A step that raises it
\* is a cycle-boundary reset, which writes an archive, starts the cycle anew and
\* puts the cap to the initial value.
C20_CapRatchet ==
    /\ [](db.current_cap \in {INITIAL_CAP_CREDITS, LOWER_CAP_CREDITS})
    /\ [][db'.current_cap < db.current_cap =>
             /\ Placed
             /\ check_and_reset_week(db, now).current_cap = INITIAL_CAP_CREDITS
             /\ db'.current_cap = LOWER_CAP_CREDITS
             /\ Cardinality(CellsAtCapLevel(db')) >= CAP_TRIGGER_COUNT]_vars
    /\ [][db'.current_cap > db.current_cap =>
             /\ ArchiveWritten
             /\ WeekPassed(db, now)
             /\ db'.week_start = SqlDatetime(now)
             /\ db'.current_cap = INITIAL_CAP_CREDITS]_vars

\* The cap stands lowered: the last placement brought the hundredth cell to the
\* level of the cap, and no cell more than that is there.
C20_Witness ==
    /\ db.current_cap = LOWER_CAP_CREDITS
    /\ Cardinality(CellsAtCapLevel(db)) = CAP_TRIGGER_COUNT
    /\ db.placements # <<>>
    /\ db.pixels[db.placements[Len(db.placements)].cell].cost_level = CapLevel

\* The placement request of user u as the state stands.
PlaceRequest(u, cell, color, is_ad) ==
    place_pixel(db, user_last_placement, u, cell, color, is_ad, now)

\* The request got past the rate-limit check.
PassedRateLimit(r) == r.status \in {200, 402}

\* C21: in every order in which the placement requests are served, no two
\* attempts of one user pass the rate-limit check less than 1 second apart.  An
\* attempt that comes to the check within the interval of an attempt that
\* passed is rejected as rate-limited and changes neither the map nor the
\* database beyond the boundary check; an attempt that passes starts the
\* interval at now; and an attempt of one user neither reads nor writes the
\* entry of another.  (The colour and the ad flag of a request play no part in
\* its checks.)
C21_RateLimitPerUser ==
    /\ [](\A u \in 1..MaxUsers, cell \in Cells :
             LET r == PlaceRequest(u, cell, "#FFFFFF", FALSE)
                 within == now - user_last_placement[u] < RATE_LIMIT_SECONDS
             IN  /\ PassedRateLimit(r) =>
                        /\ ~within
                        /\ r.ulp = [user_last_placement EXCEPT ![u] = now]
                 /\ (within /\ r.status \notin {403, 404}) =>
                        /\ r.status = 429
                        /\ r.ulp = user_last_placement
                        /\ r.db = check_and_reset_week(db, now)
                 /\ ~PassedRateLimit(r) => r.ulp = user_last_placement
                 /\ \A v \in 1..MaxUsers \ {u} :
                        LET other == IF user_last_placement[v] = now THEN 0 ELSE now
                        IN  place_pixel(db, [user_last_placement EXCEPT ![v] = other],
                                        u, cell, "#FFFFFF", FALSE, now).status
                                = r.status)
    /\ [][\A u \in 1..MaxUsers :
             user_last_placement'[u] # user_last_placement[u] =>
                 /\ user_last_placement'[u] = now
                 /\ now - user_last_placement[u] >= RATE_LIMIT_SECONDS]_vars

\* Two users have each placed in this second; both are within their interval
\* now, and one of them could pay for another placement.
C21_Witness ==
    /\ \A u \in 1..MaxUsers : user_last_placement[u] = now
    /\ \E p, q \in Placements :
           /\ db.placements[p].user_id # db.placements[q].user_id
           /\ db.placements[p].placed_at = SqlDatetime(now)
           /\ db.placements[q].placed_at = SqlDatetime(now)
    /\ \E u \in Users : db.users[u].credits >= BASE_COST_CREDITS

\* What a cycle-boundary reset that takes the database from d to e writes.
ResetWrites(d, e, t) ==
    /\ \A c \in DOMAIN e.pixels : e.pixels[c].cost_level = 0
    /\ \A u \in DOMAIN e.users : e.users[u].undo_escalation_count = 0
    /\ e.current_cap = INITIAL_CAP_CREDITS
    /\ e.board_frozen = "0"
    /\ e.week_start = SqlDatetime(t)

\* What it leaves alone.
ResetKeeps(d, e) ==
    /\ DOMAIN e.pixels = DOMAIN d.pixels
    /\ \A c \in DOMAIN d.pixels :
           /\ e.pixels[c].color = d.pixels[c].color
           /\ e.pixels[c].owner_id = d.pixels[c].owner_id
           /\ e.pixels[c].is_ad = d.pixels[c].is_ad
    /\ DOMAIN e.users = DOMAIN d.users
    /\ \A u \in DOMAIN d.users :
           /\ e.users[u].credits = d.users[u].credits
           /\ e.users[u].lifetime_paid_placements = d.users[u].lifetime_paid_placements
    /\ e.placements = d.placements
    /\ e.reports = d.reports
    /\ e.votes = d.votes
    /\ Len(e.archives) = Len(d.archives) + 1
    /\ SubSeq(e.archives, 1, Len(d.archives)) = d.archives

\* C22: a cycle-boundary reset sets every cell's escalation level to 0, every
\* user's undo-escalation counter to 0, the cap to its initial value, the freeze
\* flag to cleared and the cycle start to now, and leaves every cell's colour,
\* owner and ad flag, every user's balance and paid-placement count, and all
\* existing placement records, reports, votes and earlier archives unchanged:
\* of the boundary check on every state where the week has passed, and of every
\* board read that writes an archive.
C22_ResetFrame ==
    /\ [](WeekPassed(db, now) =>
             /\ ResetWrites(db, check_and_reset_week(db, now), now)
             /\ ResetKeeps(db, check_and_reset_week(db, now)))
    /\ [][ArchiveWritten => (ResetWrites(db, db', now) /\ ResetKeeps(db, db'))]_vars

\* A reset has just run on a board that was frozen by the reports of the cycle
\* it closed: votes are on record, a user who was charged an undo in that cycle
\* has the counter back at 0, and an owned cell stands at level 0.
C22_Witness ==
    /\ db.week_start = SqlDatetime(now)
    /\ db.board_frozen = "0"
    /\ db.votes # {}
    /\ \E i \in DOMAIN db.reports :
           /\ db.reports[i].rows >= REPORT_FREEZE_THRESHOLD
           /\ db.reports[i].reported_at[1] > db.archives[Len(db.archives)].week_start[1]
           /\ TextLess(db.reports[i].reported_at, db.archives[Len(db.archives)].week_end)
    /\ \E p \in Placements :
           /\ ~db.placements[p].can_undo
           /\ db.users[db.placements[p].user_id].undo_escalation_count = 0
    /\ \E c \in DOMAIN db.pixels :
           /\ db.pixels[c].cost_level = 0
           /\ db.pixels[c].owner_id # NoOwner

\* POST /report by user u on a cell of the board, once, in the current state.
ReportRequest(u, cell) == report_pixel(db, u, cell, 1, now)

\* C23: a report by an existing user on in-range coordinates is accepted whether
\* or not the freeze flag is set: its row is appended to the reports and the
\* current cycle's report count rises by it.
C23_ReportCountedFrozenOrNot ==
    \A u \in Users, cell \in Cells :
        /\ ReportRequest(u, cell).status = 200
        /\ ReportRequest(u, cell).db.reports =
               Append(db.reports, [reported_at |-> SqlDatetime(now), rows |-> 1])
        /\ count_week_reports(ReportRequest(u, cell).db) = count_week_reports(db) + 1

\* lines 582-589: the ad-violation check of a non-ad overwrite of the cell
ViolationOnOverwrite(pixel) == pixel.is_ad

\* C24: a successful undo, of a placement with no other request served in
\* between, restores the cell's prior state including its ad flag: the cell is
\* gone if it did not exist, and otherwise has the colour, owner and ad flag
\* it had before the placement, so that the next overwrite is discounted, and a
\* non-ad overwrite counted as a violation, exactly if they would have been
\* before the undone placement.
C24_UndoRestoresAdFlag ==
    [][\A p \in Placements :
          (UndoCommitted(p) /\ hist.op = "place" /\ hist.id = p) =>
              /\ PixelRow(db', hist.cell).color = hist.pre.pixel.color
              /\ PixelRow(db', hist.cell).owner_id = hist.pre.pixel.owner_id
              /\ PixelRow(db', hist.cell).is_ad = hist.pre.pixel.is_ad
              /\ ViolationOnOverwrite(PixelRow(db', hist.cell))
                     = ViolationOnOverwrite(hist.pre.pixel)]_vars

\* The placements on cell c that have not been undone (can_undo is cleared by
\* an undo only, lines 774-777).
LivePlacements(c) == {p \in Placements : db.placements[p].cell = c /\ db.placements[p].can_undo}

LastOf(ps) == CHOOSE p \in ps : \A q \in ps : q <= p

\* C25: after any sequence of placements and undos, every cell has the colour
\* and owner of the most recent placement on it that was not undone, and is
\* absent if every placement on it was undone; so undoing a placement that a
\* later one has overwritten leaves the later one's colour and owner in place.
C25_CellShowsLastLivePlacement ==
    \A c \in Cells :
        IF LivePlacements(c) = {}
        THEN c \notin DOMAIN db.pixels
        ELSE /\ c \in DOMAIN db.pixels
             /\ db.pixels[c].color = db.placements[LastOf(LivePlacements(c))].color
             /\ db.pixels[c].owner_id = db.placements[LastOf(LivePlacements(c))].user_id

\* C26: if the board is frozen and seven days have passed since the cycle
\* start, then, placement or board-read requests arriving for ever, the freeze
\* flag is eventually cleared (after which no placement is rejected as frozen).
C26_FreezeEndsWithTheWeek ==
    (is_board_frozen(db) /\ WeekPassed(db, now)) ~> ~is_board_frozen(db)

\* The database as a report by user u (a burst of `rows` reports) leaves it.
AfterReport(u, rows) == report_pixel(db, u, <<0, 0>>, rows, now).db

\* C27: in every order in which a placement (or an undo) and reports are
\* served, the handlers running one at a time from start to end, no placement
\* and no undo is committed from a state where the freeze flag is set; and when
\* a report that freezes the board is served ahead of a placement or an undo,
\* that request is rejected as frozen and writes nothing.
C27_NoCommitOnFrozenBoard ==
    /\ [][(Placed \/ \E p \in Placements : UndoCommitted(p))
             => db.board_frozen = "0"]_vars
    /\ [](db.board_frozen = "0" =>
             \A u \in Users, rows \in ReportBursts :
                 LET f == AfterReport(u, rows)
                 IN  f.board_frozen = "1" =>
                         /\ \A v \in 1..MaxUsers, cell \in Cells :
                                LET r == place_pixel(f, user_last_placement, v, cell,
                                                     "#FFFFFF", FALSE, now)
                                IN  r.status = 403 /\ r.db = f
                                                   /\ r.ulp = user_last_placement
                         /\ \A p \in 0..MaxPlacements, v \in 1..MaxUsers :
                                LET r == undo_placement(f, p, v, now)
                                IN  r.status = 403 /\ r.db = f)

\* A report has frozen the board after a placement was committed: but for the
\* freeze, the placement's user could undo it and could place again.
C27_Witness ==
    /\ db.board_frozen = "1"
    /\ \E p \in Placements :
           LET r == db.placements[p]
           IN  /\ r.can_undo
               /\ ~UndoWindowExpired(r.placed_at, now)
               /\ ~RateLimited(user_last_placement, r.user_id, now)
               /\ db.users[r.user_id].credits >= BASE_COST_CREDITS
               /\ \E i \in DOMAIN db.reports :
                      /\ db.reports[i].rows >= REPORT_FREEZE_THRESHOLD
                      /\ FromIsoFormat(db.reports[i].reported_at) > FromIsoFormat(r.placed_at)

\* C28: the rate-limit interval runs from the user's last accepted attempt.  An
\* attempt rejected for insufficient credits or as rate-limited starts no new
\* interval: it leaves the user's entry in the rate-limit map as it was, so the
\* user's next attempt is rejected as rate-limited only if it would have been
\* without the rejected one.
C28_RejectedAttemptStartsNoInterval ==
    \A u \in Users, c1 \in Cells, c2 \in Cells :
        LET first == PlaceRequest(u, c1, "#FFFFFF", FALSE)
            next == place_pixel(first.db, first.ulp, u, c2, "#FFFFFF", FALSE, now)
            alone == place_pixel(first.db, user_last_placement, u, c2, "#FFFFFF", FALSE, now)
        IN  first.status \in {402, 429} =>
                /\ first.ulp = user_last_placement
                /\ next.status = 429 => alone.status = 429

\* The cell of the placement committed in this step, as the placement found it
\* (after the boundary check of the request) and as it left it.
CellFound == PixelRow(check_and_reset_week(db, now), NewRecord.cell)

CellLeft == PixelRow(db', NewRecord.cell)

\* C29: a cell's level counts the paid overwrites since the last reset only: a
\* committed free placement leaves the level of its cell as it found it, and
\* with it (the ad flag and the cap being the same) the price of the next paid
\* placement on the cell.
C29_FreePlacementKeepsLevel ==
    [][(Placed /\ NewRecord.was_free) =>
          /\ CellLeft.cost_level = CellFound.cost_level
          /\ (CellLeft.is_ad = CellFound.is_ad /\ db'.current_cap = db.current_cap
                  /\ ~WeekPassed(db, now)) =>
                 calculate_pixel_cost(db', NewRecord.cell)
                     = calculate_pixel_cost(db, NewRecord.cell)]_vars

\* C30: the board_frozen value a report returns is the freeze flag as the
\* report leaves it: true for the report that reaches the threshold and for
\* every later report of the cycle while the board is frozen, false otherwise.
C30_ReportReturnsFreezeFlag ==
    \A u \in Users, cell \in Cells :
        ReportRequest(u, cell).board_frozen
            = is_board_frozen(ReportRequest(u, cell).db)

AdViolationCount(d, u) == d.users[u].ad_violation_count

\* The violation counters of all the users of the database d.
AdViolationCounts(d) == [u \in DOMAIN d.users |-> AdViolationCount(d, u)]

\* C31: a user's violation counter rises by exactly 1 on each committed
\* placement of that user that overwrites a cell flagged as an ad with a
\* placement not flagged as one, and is left as it was by every other request:
\* by every step taken, and by every placement, undo, report and vote that
\* could be served in the state.  The violation never blocks the placement: the
\* request has the outcome of the same request declared as an ad.
C31_ViolationCounter ==
    /\ [][\A u \in Users :
             AdViolationCount(db', u) = AdViolationCount(db, u)
                 + (IF Placed /\ NewRecord.user_id = u /\ CellFound.is_ad
                          /\ ~NewRecord.is_ad
                    THEN 1 ELSE 0)]_vars
    /\ [](\A u \in Users, cell \in Cells :
             LET plain == PlaceRequest(u, cell, "#FFFFFF", FALSE)
                 as_ad == PlaceRequest(u, cell, "#FFFFFF", TRUE)
                 found == PixelRow(check_and_reset_week(db, now), cell)
             IN  /\ plain.status = as_ad.status
                 /\ AdViolationCounts(as_ad.db) = AdViolationCounts(db)
                 /\ AdViolationCounts(plain.db) =
                        IF plain.status = 200 /\ found.is_ad
                        THEN [AdViolationCounts(db) EXCEPT ![u] = @ + 1]
                        ELSE AdViolationCounts(db))
    /\ [](\A u \in Users :
             /\ \A p \in 0..MaxPlacements :
                    AdViolationCounts(undo_placement(db, p, u, now).db)
                        = AdViolationCounts(db)
             /\ \A a \in 0..Len(db.archives) :
                    AdViolationCounts(vote_for_archive(db, u, a).db)
                        = AdViolationCounts(db)
             /\ AdViolationCounts(ReportRequest(u, <<0, 0>>).db) = AdViolationCounts(db))

\* A user has one violation on the counter: the user's placement, not declared
\* an ad, stands over an earlier placement on the cell that was declared one.
C31_Witness ==
    \E u \in Users :
        /\ AdViolationCount(db, u) = 1
        /\ \E p \in Placements, q \in Placements :
               /\ q < p
               /\ db.placements[p].user_id = u
               /\ ~db.placements[p].is_ad
               /\ db.placements[q].is_ad
               /\ db.placements[q].cell = db.placements[p].cell
               /\ db.placements[q].can_undo

\* The event delivered in this step, and whether it confirms a purchase that no
\* earlier delivery has confirmed.
Delivered == Len(hist'.delivered) > Len(hist.delivered)

Event == hist'.delivered[Len(hist'.delivered)]

FirstConfirmation ==
    /\ Event.type = "checkout.session.completed"
    /\ purchase_of(db, Event.session_id) # {}
    /\ \A i \in DOMAIN hist.delivered : hist.delivered[i] # Event

\* C32: each confirmed purchase credits the user's balance exactly once with
\* the purchased amount.  The first delivery of the purchase-completed event of
\* a purchase adds the purchased credits to the balance of the purchase's user
\* and to no other; a later delivery of the event for the same purchase, like
\* any other event, leaves every balance as it was.
C32_PurchaseCreditedOnce ==
    [][Delivered =>
          \A u \in Users :
              db'.users[u].credits = db.users[u].credits
                  + (IF FirstConfirmation
                          /\ \E i \in purchase_of(db, Event.session_id) :
                                 db.purchases[i].user_id = u
                     THEN CHOOSE c \in {db.purchases[i].credits_purchased :
                                           i \in purchase_of(db, Event.session_id)} : TRUE
                     ELSE 0)]_vars

====
